---- MODULE Spec2Model ----
(***************************************************************************)
(* ILI9341 display driver (m5stack/ili9341.py) as a state machine.         *)
(*                                                                         *)
(* The driver is synchronous and single-threaded: one action per public    *)
(* method, each covering the whole call.  What a call does on the wires is *)
(* recorded in `bus`, the ordered list of pin writes and SPI transfers the *)
(* call performed; the pin levels after the call are those the list leaves.*)
(*                                                                         *)
(* The constructor, reset() and init() wait in time.sleep_ms partway       *)
(* through.  Each wait is a state of its own (pc says which), so what the  *)
(* pins and the bus look like during the wait can be observed; a call that *)
(* waits is taken up again by its next step, and no other method of the    *)
(* driver starts meanwhile.                                                *)
(***************************************************************************)
EXTENDS Integers, Sequences, FiniteSets

VARIABLES
    cs,       \* level of the chip-select pin
    dc,       \* level of the data/command pin
    rst,      \* level of the reset pin
    mode,     \* self.mode: colour-order flag given to the constructor
    _scroll,  \* self._scroll, or Unset until __init__ assigns it
    bus,      \* pin writes and SPI transfers of the last call so far, in order
    call,     \* the last call: [name, args]
    ret,      \* its return value: None or Some(v)
    cursor,   \* text(): the loop's (tx, ty) bookkeeping, one record per character
    total,    \* sum of the dy arguments of all scroll(dy) calls so far
    pc        \* "ready", or the time.sleep_ms the running call waits in

vars == <<cs, dc, rst, mode, _scroll, bus, call, ret, cursor, total, pc>>

----------------------------------------------------------------------------
(* Program constants *)

_COLUMN_SET == 42
_PAGE_SET == 43
_RAM_WRITE == 44
_RAM_READ == 46
_DISPLAY_ON == 41
_WAKE == 17
_LINE_SET == 55
_MADCTL == 54

_MADCTL_MY == 128
_MADCTL_MX == 64
_MADCTL_MV == 32
_MADCTL_RGB == 0
_MADCTL_BGR == 8

width == 320
height == 240

----------------------------------------------------------------------------
(* Python values *)

None == <<>>
Some(v) == <<v>>

\* an attribute not assigned yet
Unset == "unset"

min(a, b) == IF a <= b THEN a ELSE b
max(a, b) == IF a >= b THEN a ELSE b

\* a | b on non-negative integers
RECURSIVE BitOr(_, _)
BitOr(a, b) ==
    IF a = 0 THEN b
    ELSE IF b = 0 THEN a
    ELSE (IF a % 2 = 1 \/ b % 2 = 1 THEN 1 ELSE 0) + 2 * BitOr(a \div 2, b \div 2)

\* a & b on non-negative integers
RECURSIVE BitAnd(_, _)
BitAnd(a, b) ==
    IF a = 0 \/ b = 0 THEN 0
    ELSE (IF a % 2 = 1 /\ b % 2 = 1 THEN 1 ELSE 0) + 2 * BitAnd(a \div 2, b \div 2)

Pow2(n) == <<1, 2, 4, 8, 16, 32, 64, 128>>[n + 1]

\* A bytes object, kept as a unit repeated `times` times (b * n in Python):
\* the 1024-byte chunks of a fill are one 2-byte unit times 512.
Bytes(unit) == [unit |-> unit, times |-> 1]
BytesMul(b, n) == [unit |-> b.unit, times |-> b.times * max(0, n)]
BytesLen(b) == Len(b.unit) * b.times

\* ustruct.pack(">H", v): two bytes, high first; MicroPython keeps the low 16 bits
PackH(v) == Bytes(<<(v % 65536) \div 256, v % 256>>)

\* ustruct.pack(">HH", a, b)
PackHH(a, b) == Bytes(PackH(a).unit \o PackH(b).unit)

color565(r, g, b) ==
    BitOr(BitOr(BitAnd(r, 248) * 256, BitAnd(g, 252) * 8), b \div 8)

----------------------------------------------------------------------------
(* Wire events *)

\* <<line, level>>, <<"write", bytes>>, <<"read", count, bytes received>>
PinSet(line, v) == <<line, v>>
SpiWrite(data) == <<"write", data>>
SpiRead(count, got) == <<"read", count, got>>

\* Level of pin `line` after the events of log, starting from level v
PinAfter(line, v, log) ==
    LET sets == {i \in 1..Len(log) : log[i][1] = line}
    IN  IF sets = {} THEN v
        ELSE log[CHOOSE i \in sets : \A j \in (i + 1)..Len(log) : log[j][1] # line][2]

----------------------------------------------------------------------------
(* Transfer primitives *)

\* _data() that leaves chip-select asserted
_data_cs_held(data) ==
    << PinSet("dc", 1), PinSet("cs", 0), SpiWrite(data) >>

_data(data) ==
    << PinSet("dc", 1), PinSet("cs", 0), SpiWrite(data), PinSet("cs", 1) >>

_write(command, data) ==
    << PinSet("dc", 0), PinSet("cs", 0), SpiWrite(Bytes(<<command>>)), PinSet("cs", 1) >>
    \o (IF data # None THEN _data(data[1]) ELSE <<>>)

\* got: the bytes the panel returns to spi.read(count)
_read(command, count, got) ==
    << PinSet("dc", 0), PinSet("cs", 0), SpiWrite(Bytes(<<command>>)),
       SpiRead(count, got), PinSet("cs", 1) >>

----------------------------------------------------------------------------
(* Rotation *)

\* set_rotation() whose second entry also mirrors X
set_rotation_mx_mv(m, value) ==
    LET values == << BitOr(_MADCTL_MX, m),
                     BitOr(BitOr(_MADCTL_MX, _MADCTL_MV), m),
                     BitOr(_MADCTL_MY, m),
                     BitOr(BitOr(BitOr(_MADCTL_MX, _MADCTL_MY), _MADCTL_MV), m) >>
    IN  _write(_MADCTL, Some(PackH(values[(value % 4) + 1])))

\* set_rotation() whose third entry forgets the colour-order mode
set_rotation_no_mode(m, value) ==
    LET values == << BitOr(_MADCTL_MX, m),
                     BitOr(_MADCTL_MV, m),
                     _MADCTL_MY,
                     BitOr(BitOr(BitOr(_MADCTL_MX, _MADCTL_MY), _MADCTL_MV), m) >>
    IN  _write(_MADCTL, Some(PackH(values[(value % 4) + 1])))

set_rotation(m, value) ==
    LET values == << BitOr(_MADCTL_MX, m),
                     BitOr(_MADCTL_MV, m),
                     BitOr(_MADCTL_MY, m),
                     BitOr(BitOr(BitOr(_MADCTL_MX, _MADCTL_MY), _MADCTL_MV), m) >>
    IN  _write(_MADCTL, Some(PackH(values[(value % 4) + 1])))

----------------------------------------------------------------------------
(* Addressing window and block transfer *)

\* data = None reads the window back (got: what the panel returns)
_block(x0, y0, x1, y1, data, got) ==
    _write(_COLUMN_SET, Some(PackHH(x0, x1)))
    \o _write(_PAGE_SET, Some(PackHH(y0, y1)))
    \o (IF data = None
        THEN _read(_RAM_READ, (x1 - x0 + 1) * (y1 - y0 + 1) * 3, got)
        ELSE _write(_RAM_WRITE, data))

----------------------------------------------------------------------------
(* Pixel access *)

\* pixel() whose bounds check forgets y
pixel_no_y_check(x, y, color, got) ==
    IF color = None
    THEN LET r == got.unit[1]
             b == got.unit[2]
             g == got.unit[3]
         IN  [log |-> _block(x, y, x, y, None, got), ret |-> Some(color565(r, g, b))]
    ELSE IF ~(0 <= x /\ x < width)
    THEN [log |-> <<>>, ret |-> None]
    ELSE [log |-> _block(x, y, x, y, Some(PackH(color[1])), None), ret |-> None]

\* color = None reads the pixel back; the result is [log, ret]
pixel(x, y, color, got) ==
    IF color = None
    THEN LET r == got.unit[1]
             b == got.unit[2]
             g == got.unit[3]
         IN  [log |-> _block(x, y, x, y, None, got), ret |-> Some(color565(r, g, b))]
    ELSE IF ~(0 <= x /\ x < width) \/ ~(0 <= y /\ y < height)
    THEN [log |-> <<>>, ret |-> None]
    ELSE [log |-> _block(x, y, x, y, Some(PackH(color[1])), None), ret |-> None]

----------------------------------------------------------------------------
(* Rectangle fill *)

\* log repeated n times: for count in range(n)
Repeat(log, n) == [i \in 1..(max(0, n) * Len(log)) |-> log[((i - 1) % Len(log)) + 1]]

\* fill_rectangle() that clamps x from above only
fill_rectangle_x_unclamped(x, y, w, h, color) ==
    LET cx == min(width - 1, x)
        cy == min(height - 1, max(0, y))
        cw == min(width - cx, max(1, w))
        ch == min(height - cy, max(1, h))
        chunks == (cw * ch) \div 512
        rest == (cw * ch) % 512
    IN  _block(cx, cy, cx + cw - 1, cy + ch - 1, Some(Bytes(<<>>)), None)
        \o (IF chunks # 0 THEN Repeat(_data(BytesMul(PackH(color), 512)), chunks) ELSE <<>>)
        \o _data(BytesMul(PackH(color), rest))

\* fill_rectangle() that never sends the remainder
fill_rectangle_no_rest(x, y, w, h, color) ==
    LET cx == min(width - 1, max(0, x))
        cy == min(height - 1, max(0, y))
        cw == min(width - cx, max(1, w))
        ch == min(height - cy, max(1, h))
        chunks == (cw * ch) \div 512
    IN  _block(cx, cy, cx + cw - 1, cy + ch - 1, Some(Bytes(<<>>)), None)
        \o (IF chunks # 0 THEN Repeat(_data(BytesMul(PackH(color), 512)), chunks) ELSE <<>>)

fill_rectangle(x, y, w, h, color) ==
    LET cx == min(width - 1, max(0, x))
        cy == min(height - 1, max(0, y))
        cw == min(width - cx, max(1, w))
        ch == min(height - cy, max(1, h))
        chunks == (cw * ch) \div 512
        rest == (cw * ch) % 512
    IN  _block(cx, cy, cx + cw - 1, cy + ch - 1, Some(Bytes(<<>>)), None)
        \o (IF chunks # 0 THEN Repeat(_data(BytesMul(PackH(color), 512)), chunks) ELSE <<>>)
        \o _data(BytesMul(PackH(color), rest))

fill(color) == fill_rectangle(0, 0, width, height, color)

----------------------------------------------------------------------------
(* Hardware scroll *)

\* scroll() that does not wrap the offset
scroll_no_modulo(offset, dy) ==
    IF dy = None
    THEN [log |-> <<>>, ret |-> Some(offset), scroll |-> offset]
    ELSE LET new == offset + dy[1]
         IN  [log |-> _write(_LINE_SET, Some(PackH(new))), ret |-> None, scroll |-> new]

\* dy = None returns the offset; the result is [log, ret, scroll]
scroll(offset, dy) ==
    IF dy = None
    THEN [log |-> <<>>, ret |-> Some(offset), scroll |-> offset]
    ELSE LET new == (offset + dy[1]) % height
         IN  [log |-> _write(_LINE_SET, Some(PackH(new))), ret |-> None, scroll |-> new]

----------------------------------------------------------------------------
(* Construction *)

\* reset() up to its first wait, and from there to its second
reset_low == << PinSet("rst", 0) >>
reset_high == << PinSet("rst", 1) >>

InitTable ==
    << <<239, <<3, 128, 2>> >>,
       <<207, <<0, 193, 48>> >>,
       <<237, <<100, 3, 18, 129>> >>,
       <<232, <<133, 0, 120>> >>,
       <<203, <<57, 44, 0, 52, 2>> >>,
       <<247, <<32>> >>,
       <<234, <<0, 0>> >>,
       <<192, <<35>> >>,
       <<193, <<16>> >>,
       <<197, <<62, 40>> >>,
       <<199, <<134>> >>,
       <<54, <<72>> >>,
       <<54, <<64>> >>,
       <<58, <<85>> >>,
       <<177, <<0, 24>> >>,
       <<182, <<8, 130, 39>> >>,
       <<242, <<0>> >>,
       <<38, <<1>> >>,
       <<224, <<15, 49, 43, 12, 14, 8, 78, 241, 55, 7, 16, 3, 14, 9, 0>> >>,
       <<225, <<0, 14, 20, 3, 17, 7, 49, 193, 72, 8, 15, 12, 49, 54, 15>> >> >>

RECURSIVE InitWrites(_)
InitWrites(i) ==
    IF i > Len(InitTable) THEN <<>>
    ELSE _write(InitTable[i][1], Some(Bytes(InitTable[i][2]))) \o InitWrites(i + 1)

\* init() up to its wait after WAKE, and from there to its end
init_wake == InitWrites(1) \o _write(_WAKE, None)
init_display_on == _write(_DISPLAY_ON, None)

\* __init__(): the pin set-up before reset()
pins_init == << PinSet("cs", 1), PinSet("dc", 0), PinSet("rst", 0) >>

----------------------------------------------------------------------------
(* Text rendering *)

\* framebuf.FrameBuffer1(buffer, 8, 8).text(char, 0, 0): the 8 column bytes of
\* the glyph in the firmware's 8x8 font, bit r of byte c being row r of column c.
\* The font belongs to the firmware, not to the driver; two of its glyphs are
\* enough for the driver to have set and clear bits to expand.
BuiltinGlyph(ch) ==
    CASE ch = "A" -> <<124, 126, 11, 11, 126, 124, 0, 0>>
      [] ch = "!" -> <<0, 0, 0, 79, 79, 0, 0, 0>>
      [] OTHER    -> <<0, 0, 0, 0, 0, 0, 0, 0>>

\* bit n of byte
Bit(byte, n) == (byte \div Pow2(n)) % 2

\* Characters and colours the model draws with
GlyphChars == {"A", "!"}
Inks == {65535, 63488, 0}

\* char(): the 8x8x2-byte buffer built from the glyph, row-major, foreground
\* where the glyph's bit is set and background elsewhere
CharData ==
    [ch \in GlyphChars, color \in Inks, background \in Inks |->
        LET buffer == BuiltinGlyph(ch)
            fg == PackH(color).unit
            bg == PackH(background).unit
        IN  [idx \in 1..128 |->
                LET r == (idx - 1) \div 16
                    c == ((idx - 1) % 16) \div 2
                    k == (idx - 1) % 2
                IN  IF Bit(buffer[c + 1], r) = 1 THEN fg[k + 1] ELSE bg[k + 1]]]

char(ch, x, y, color, background) ==
    _block(x, y, x + 7, y + 7, Some(Bytes(CharData[ch, color, background])), None)

\* font.get_ch(char) of a font provider: glyph bytes (column-major), height, width
SmallFont ==
    [ch \in GlyphChars |->
        IF ch = "A"
        THEN [glyph |-> <<254, 1, 17, 0, 254, 1>>, height |-> 10, width |-> 3]
        ELSE [glyph |-> <<0, 0, 191, 0>>, height |-> 10, width |-> 2]]

\* a second font provider, its "A" two full columns around an empty one
BlockFont ==
    [ch \in GlyphChars |->
        IF ch = "A"
        THEN [glyph |-> <<255, 3, 0, 0, 255, 3>>, height |-> 10, width |-> 3]
        ELSE [glyph |-> <<255, 255>>, height |-> 8, width |-> 2]]

\* the result is [log, ret]
font_char(font, ch, x, y, color, background) ==
    LET g == font[ch]
        glyph == g.glyph
        char_height == g.height
        char_width == g.width
        gbytes == IF char_height % 8 # 0 THEN char_height \div 8 + 1
                  ELSE char_height \div 8
        fg == PackH(color).unit
        bg == PackH(background).unit
        odata == [idx \in 1..(2 * char_height * char_width) |->
                    LET srow == (idx - 1) \div (char_width * 2)
                        scol == ((idx - 1) % (char_width * 2)) \div 2
                        k == (idx - 1) % 2
                        data == glyph[scol * gbytes + srow \div 8 + 1]
                    IN  IF Bit(data, srow % 8) = 1 THEN fg[k + 1] ELSE bg[k + 1]]
    IN  [log |-> _block(x, y, x + char_width - 1, y + char_height - 1, Some(Bytes(odata)), None),
         ret |-> Some(char_width)]

\* new_line() that goes back to x = 0 instead of the starting x
new_line_x0(x, y, vwrap, ty) ==
    LET ty8 == ty + 8
    IN  << 0, IF ty8 >= vwrap THEN y ELSE ty8 >>

\* new_line() that goes back to the starting y only past vwrap
new_line_exceeds(x, y, vwrap, ty) ==
    LET ty8 == ty + 8
    IN  << x, IF ty8 > vwrap THEN y ELSE ty8 >>

\* new_line() of text(): the cursor <<tx, ty>> after it
new_line(x, y, vwrap, ty) ==
    LET ty8 == ty + 8
    IN  << x, IF ty8 >= vwrap THEN y ELSE ty8 >>

\* The for loop of text() from character i on.  a: the arguments with wrap and
\* vwrap resolved.  The result is [log, steps, tx, ty]; steps holds, for each
\* character, the cursor before it, whether new_line() ran, the cursor once it
\* had (where a glyph is drawn), and the cursor after the character.
RECURSIVE TextLoop(_, _, _, _, _, _)
TextLoop(a, i, tx, ty, log, steps) ==
    IF i > Len(a.text) THEN [log |-> log, steps |-> steps, tx |-> tx, ty |-> ty]
    ELSE
      LET ch == a.text[i]
      IN  IF ch = "\n"
          THEN LET clr == IF a.clear_eol /\ tx < a.wrap
                          THEN fill_rectangle(tx, ty, a.wrap - tx + 7, 8, a.background)
                          ELSE <<>>
                   nl == new_line(a.x, a.y, a.vwrap, ty)
               IN  TextLoop(a, i + 1, nl[1], nl[2], log \o clr,
                            Append(steps, [ch |-> ch, nl |-> TRUE, before |-> <<tx, ty>>,
                                           at |-> nl, after |-> nl]))
          ELSE LET nl == IF tx >= a.wrap THEN new_line(a.x, a.y, a.vwrap, ty) ELSE <<tx, ty>>
                   fc == font_char(a.font[1], ch, nl[1], nl[2], a.color, a.background)
                   draw == IF a.font = None
                           THEN char(ch, nl[1], nl[2], a.color, a.background)
                           ELSE fc.log
                   tx1 == IF a.font = None THEN nl[1] + 8 ELSE nl[1] + fc.ret[1]
               IN  TextLoop(a, i + 1, tx1, nl[2], log \o draw,
                            Append(steps, [ch |-> ch, nl |-> (tx >= a.wrap), before |-> <<tx, ty>>,
                                           at |-> nl, after |-> <<tx1, nl[2]>>]))

\* wrap, vwrap, font: None or Some(v); the result is [log, steps]
text(str, x, y, color, background, wrap, vwrap, clear_eol, font) ==
    LET a == [text |-> str, x |-> x, y |-> y, color |-> color, background |-> background,
              wrap |-> IF wrap = None THEN width - 8 ELSE wrap[1],
              vwrap |-> IF vwrap = None THEN height - 8 ELSE vwrap[1],
              clear_eol |-> clear_eol, font |-> font]
        run == TextLoop(a, 1, x, y, <<>>, <<>>)
        clr == IF clear_eol /\ run.tx < a.wrap
               THEN fill_rectangle(run.tx, run.ty, a.wrap - run.tx + 7, 8, background)
               ELSE <<>>
    IN  [log |-> run.log \o clr, steps |-> run.steps]

----------------------------------------------------------------------------
(* Bounds and inputs *)

MaxLen == 3        \* longest string given to text()
MaxTotal == 300    \* scroll(dy) is called while |sum of dy| stays within this

DefaultColor == 65535
DefaultBackground == 0

Modes == {_MADCTL_RGB, _MADCTL_BGR}
Rotations == {0, 3}
Colors == {63488, 4660}
ReadBacks == {Bytes(<<255, 17, 34>>), Bytes(<<0, 0, 0>>)}

\* all strings over alphabet of length 0..n, as sequences of characters
RECURSIVE Strings(_, _)
Strings(alphabet, n) ==
    IF n = 0 THEN { <<>> }
    ELSE LET shorter == Strings(alphabet, n - 1)
         IN  shorter \cup { Append(s, c) : s \in shorter, c \in alphabet }

----------------------------------------------------------------------------
(* State machine *)

\* One step of call c: it puts events on the wires, which leaves the call's log
\* at log, and then returns (at = "ready") or waits (at = the wait)
Step(c, log, events, r, offset, sum, steps, at) ==
    /\ call' = c
    /\ bus' = log
    /\ ret' = r
    /\ cs' = PinAfter("cs", cs, events)
    /\ dc' = PinAfter("dc", dc, events)
    /\ rst' = PinAfter("rst", rst, events)
    /\ _scroll' = offset
    /\ total' = sum
    /\ cursor' = steps
    /\ pc' = at
    /\ UNCHANGED mode

\* A call that runs from start to return without waiting
Done(c, log, r, offset, sum, steps) ==
    /\ pc = "ready"
    /\ Step(c, log, log, r, offset, sum, steps, "ready")

\* The waiting call goes on: more events, then the next wait or the return
Resume(events, offset, at) ==
    Step(call, bus \o events, events, ret, offset, total, cursor, at)

\* __init__ at its first wait, in reset(): pins set up, reset line low
Init ==
    \E rotation \in Rotations, m \in Modes :
        LET log == pins_init \o reset_low
        IN  /\ mode = m
            /\ bus = log
            /\ cs = PinAfter("cs", 0, log)
            /\ dc = PinAfter("dc", 0, log)
            /\ rst = PinAfter("rst", 0, log)
            /\ call = [name |-> "__init__", rotation |-> rotation]
            /\ ret = None
            /\ _scroll = Unset
            /\ total = 0
            /\ cursor = <<>>
            /\ pc = "reset_low"

\* reset(), called on its own: up to the wait with the reset line low
Reset ==
    /\ pc = "ready"
    /\ Step([name |-> "reset"], reset_low, reset_low, None, _scroll, total, <<>>, "reset_low")

\* reset(): reset line high, second wait
ResetHigh ==
    /\ pc = "reset_low"
    /\ Resume(reset_high, _scroll, "reset_high")

\* reset(), called on its own, returns
ResetReturn ==
    /\ pc = "reset_high"
    /\ call.name = "reset"
    /\ Resume(<<>>, _scroll, "ready")

\* __init__: reset() has returned, init() runs up to its wait after WAKE
ConstructInit ==
    /\ pc = "reset_high"
    /\ call.name = "__init__"
    /\ Resume(init_wake, _scroll, "init_wake")

\* init(), called on its own: up to its wait after WAKE
InitPanel ==
    /\ pc = "ready"
    /\ Step([name |-> "init"], init_wake, init_wake, None, _scroll, total, <<>>, "init_wake")

\* init(): DISPLAY_ON, then it returns; __init__ goes on to its own wait
InitDisplayOn ==
    /\ pc = "init_wake"
    /\ Resume(init_display_on, _scroll,
              IF call.name = "__init__" THEN "construct_wait" ELSE "ready")

\* __init__: the rotation is written, the scroll offset assigned, it returns
ConstructFinish ==
    /\ pc = "construct_wait"
    /\ Resume(set_rotation(mode, call.rotation), 0, "ready")

\* The constructor from its first wait to its return
Construction ==
    \/ ResetHigh
    \/ ConstructInit
    \/ InitDisplayOn
    \/ ConstructFinish

PixelWrite(X, Y, C) ==
    \E x \in X, y \in Y, color \in C :
        LET p == pixel(x, y, Some(color), None)
        IN  Done([name |-> "pixel", x |-> x, y |-> y, color |-> Some(color)],
                 p.log, p.ret, _scroll, total, <<>>)

PixelRead(X, Y) ==
    \E x \in X, y \in Y, got \in ReadBacks :
        LET p == pixel(x, y, None, got)
        IN  Done([name |-> "pixel", x |-> x, y |-> y, color |-> None],
                 p.log, p.ret, _scroll, total, <<>>)

FillRectangle(X, Y, W, H, C) ==
    \E x \in X, y \in Y, w \in W, h \in H, color \in C :
        Done([name |-> "fill_rectangle", x |-> x, y |-> y, w |-> w, h |-> h, color |-> color],
             fill_rectangle(x, y, w, h, color), None, _scroll, total, <<>>)

Fill(C) ==
    \E color \in C :
        Done([name |-> "fill", color |-> color], fill(color), None, _scroll, total, <<>>)

Char(X, Y) ==
    \E ch \in GlyphChars, x \in X, y \in Y :
        Done([name |-> "char", char |-> ch, x |-> x, y |-> y],
             char(ch, x, y, DefaultColor, DefaultBackground), None, _scroll, total, <<>>)

FontChar(X, Y) ==
    \E font \in {SmallFont, BlockFont}, ch \in GlyphChars, x \in X, y \in Y :
        LET f == font_char(font, ch, x, y, DefaultColor, DefaultBackground)
        IN  Done([name |-> "font_char", font |-> font, char |-> ch, x |-> x, y |-> y],
                 f.log, f.ret, _scroll, total, <<>>)

Text(S, X, Y, Wrap, VWrap, Eol, Fonts) ==
    \E str \in S, x \in X, y \in Y, wrap \in Wrap, vwrap \in VWrap,
       clear_eol \in Eol, font \in Fonts :
        LET t == text(str, x, y, DefaultColor, 63488, wrap, vwrap, clear_eol, font)
        IN  Done([name |-> "text", text |-> str, x |-> x, y |-> y, wrap |-> wrap,
                  vwrap |-> vwrap, clear_eol |-> clear_eol, font |-> font],
                 t.log, None, _scroll, total, t.steps)

Scroll(DY) ==
    \E dy \in DY :
        LET s == scroll(_scroll, Some(dy))
        IN  /\ total + dy >= -MaxTotal
            /\ total + dy <= MaxTotal
            /\ Done([name |-> "scroll", dy |-> Some(dy)], s.log, s.ret, s.scroll,
                    total + dy, <<>>)

ScrollGet ==
    LET s == scroll(_scroll, None)
    IN  Done([name |-> "scroll", dy |-> None], s.log, s.ret, s.scroll, total, <<>>)

SetRotation(V) ==
    \E value \in V :
        Done([name |-> "set_rotation", value |-> value], set_rotation(mode, value),
             None, _scroll, total, <<>>)

\* The constructor and every public method, on a few arguments each
Next ==
    \/ Construction
    \/ Reset
    \/ ResetReturn
    \/ InitPanel
    \/ PixelWrite({0, 400}, {10, 240}, {63488})
    \/ PixelRead({0, 400}, {10}) 
    \/ FillRectangle({-5, 300}, {-5}, {10, 400}, {10, 300}, {63488})
    \/ Fill({63488})
    \/ Char({0, 316}, {0, 236})
    \/ FontChar({0, 318}, {0, 231})
    \/ Text(Strings({"A", "\n"}, MaxLen), {0}, {224}, {Some(16)}, {None}, BOOLEAN,
            {None, Some(SmallFont)})
    \/ Scroll({250})
    \/ ScrollGet
    \/ SetRotation({1, 6})

Spec == Init /\ [][Next]_vars

\* Rectangle fills over a grid of positions and sizes around the panel's edges
NextFill ==
    \/ Construction
    \/ FillRectangle({-5, 100, 319, 400}, {-5, 239, 300}, {-3, 10, 25, 400},
                     {0, 10, 40, 300}, {4660})
    \/ Fill(Colors)

SpecFill == Init /\ [][NextFill]_vars

\* Scrolling by positive, negative and oversized amounts, with rotation changes
\* and pixel writes in between
NextScroll ==
    \/ Construction
    \/ Scroll({250, -130, 480})
    \/ ScrollGet
    \/ SetRotation({-1, 0, 1, 2, 3, 6})
    \/ PixelWrite({-1, 0, 319, 320, 400}, {-1, 10, 239, 240}, {4660})

SpecScroll == Init /\ [][NextScroll]_vars

\* Text layout with narrow horizontal and vertical boundaries
NextText ==
    \/ Construction
    \/ Text(Strings({"A", "\n"}, MaxLen), {0, 8}, {0, 224}, {Some(16)}, {None, Some(12)},
            {FALSE}, {None, Some(SmallFont)})

SpecText == Init /\ [][NextText]_vars

----------------------------------------------------------------------------
(* Reading a call's wire log *)

\* Each event with the chip-select and data/command levels it happened under.
\* Every transfer primitive sets dc before it transfers, so the level assumed
\* before the first event never shows.
Annotated(log) ==
    [i \in 1..Len(log) |->
        [op |-> log[i][1],
         v |-> IF log[i][1] = "write" THEN 0 ELSE log[i][2],
         data |-> IF log[i][1] = "write" THEN log[i][2]
                  ELSE IF log[i][1] = "read" THEN log[i][3] ELSE Bytes(<<>>),
         cs |-> PinAfter("cs", 1, SubSeq(log, 1, i - 1)),
         dc |-> PinAfter("dc", 1, SubSeq(log, 1, i - 1))]]

IsTransfer(e) == e.op \in {"write", "read"}

\* The SPI transfers of a log, in order
Transfers(log) == SelectSeq(Annotated(log), IsTransfer)

IsCommand(t, c) == t.op = "write" /\ t.dc = 0 /\ t.data = Bytes(<<c>>)
IsPayload(t, bytes) == t.op = "write" /\ t.dc = 1 /\ t.data = Bytes(bytes)

\* big-endian 16-bit value at bytes[k], bytes[k+1]
U16(bytes, k) == bytes[k] * 256 + bytes[k + 1]

\* Positions in the transfers t where an addressing window is set:
\* COLUMN_SET, its payload, PAGE_SET, its payload
WindowStarts(t) ==
    {k \in 1..(Len(t) - 3) :
        /\ IsCommand(t[k], 42) /\ t[k + 1].op = "write" /\ t[k + 1].dc = 1
        /\ IsCommand(t[k + 2], 43) /\ t[k + 3].op = "write" /\ t[k + 3].dc = 1}

WindowAt(t, k) ==
    [x0 |-> U16(t[k + 1].data.unit, 1), x1 |-> U16(t[k + 1].data.unit, 3),
     y0 |-> U16(t[k + 3].data.unit, 1), y1 |-> U16(t[k + 3].data.unit, 3)]

\* The windows a log sets, in order
Windows(log) ==
    LET t == Transfers(log)
        starts == WindowStarts(t)
    IN  [n \in 1..Cardinality(starts) |->
            WindowAt(t, CHOOSE k \in starts : Cardinality({j \in starts : j < k}) = n - 1)]

WindowValid(w) ==
    /\ 0 <= w.x0 /\ w.x0 <= w.x1 /\ w.x1 < 320
    /\ 0 <= w.y0 /\ w.y0 <= w.y1 /\ w.y1 < 240

Clamp(v, lo, hi) == IF v < lo THEN lo ELSE IF v > hi THEN hi ELSE v

IsDrawing == call.name \in {"pixel", "fill_rectangle", "fill", "char", "font_char", "text"}

----------------------------------------------------------------------------
(* Claims *)

\* C1: every addressing window a drawing operation sends to the panel lies
\* inside it: 0 <= x0 <= x1 < 320 and 0 <= y0 <= y1 < 240, whatever the
\* coordinates and sizes of the call.
C1_WindowsInsidePanel ==
    IsDrawing => \A n \in DOMAIN Windows(bus) : WindowValid(Windows(bus)[n])

\* C2: chip-select brackets one logical transfer.  In the log of every call,
\* each chip-select low is followed by one SPI write, optionally one SPI read,
\* and then chip-select high; every SPI transfer happens under chip-select low;
\* and when the call has returned chip-select is high.
C2_ChipSelectBrackets ==
    LET a == Annotated(bus)
    IN  /\ cs = 1
        /\ \A i \in DOMAIN a :
            /\ IsTransfer(a[i]) => a[i].cs = 0
            /\ (a[i].op = "cs" /\ a[i].v = 0) =>
                /\ i + 2 <= Len(a)
                /\ a[i + 1].op = "write"
                /\ \/ (a[i + 2].op = "cs" /\ a[i + 2].v = 1)
                   \/ /\ i + 3 <= Len(a)
                      /\ a[i + 2].op = "read"
                      /\ a[i + 3].op = "cs" /\ a[i + 3].v = 1

\* C2 witness: a pixel read-back has returned: its log holds a command write
\* and a read under one chip-select low
C2_Witness ==
    /\ call.name = "pixel" /\ call.color = None
    /\ \E i \in DOMAIN bus : bus[i][1] = "read"
    /\ cs = 1

\* C3: fill_rectangle(x, y, w, h, color) sets one window, whose corner is
\* (x, y) clamped into the panel, whose extent is w, h clamped to at least 1
\* and to what is left of the panel, and which lies inside the panel;
\* fill_rectangle(-5, -5, 10, 10, c) sets the window (0,0)-(9,9).
C3_FillRectangleWindow ==
    call.name = "fill_rectangle" =>
        LET w == Windows(bus)
            x0 == Clamp(call.x, 0, 319)
            y0 == Clamp(call.y, 0, 239)
        IN  /\ Len(w) = 1
            /\ w[1].x0 = x0
            /\ w[1].y0 = y0
            /\ w[1].x1 - w[1].x0 + 1 = Clamp(call.w, 1, 320 - x0)
            /\ w[1].y1 - w[1].y0 + 1 = Clamp(call.h, 1, 240 - y0)
            /\ w[1].x1 - w[1].x0 + 1 >= 1
            /\ w[1].y1 - w[1].y0 + 1 >= 1
            /\ WindowValid(w[1])
            /\ (call.x = -5 /\ call.y = -5 /\ call.w = 10 /\ call.h = 10) =>
                    w[1] = [x0 |-> 0, x1 |-> 9, y0 |-> 0, y1 |-> 9]

\* C3 witness: fill_rectangle(-5, -5, 10, 10, c) has set the window (0,0)-(9,9)
C3_Witness ==
    /\ call.name = "fill_rectangle"
    /\ call.x = -5 /\ call.y = -5 /\ call.w = 10 /\ call.h = 10
    /\ Windows(bus) = << [x0 |-> 0, x1 |-> 9, y0 |-> 0, y1 |-> 9] >>

\* Pixels carried by a data transfer of 2-byte colours
Pixels(t) == BytesLen(t.data) \div 2

\* The transfers of a fill after the window is set: those that follow the
\* RAM_WRITE command and its empty payload
Streamed(log) ==
    LET t == Transfers(log)
    IN  SubSeq(t, 7, Len(t))

\* C4: with N the pixels of the window a fill sets, the colour is streamed as
\* N div 512 data transfers of exactly 512 pixels followed by one data
\* transfer of exactly N mod 512 pixels, every one made of the 2-byte colour;
\* none carries more than 512 pixels and together they carry N.
C4_FillChunks ==
    call.name \in {"fill_rectangle", "fill"} =>
        LET t == Transfers(bus)
            w == Windows(bus)[1]
            N == (w.x1 - w.x0 + 1) * (w.y1 - w.y0 + 1)
            s == Streamed(bus)
        IN  /\ IsCommand(t[5], 44)
            /\ IsPayload(t[6], <<>>)
            /\ Len(s) = N \div 512 + 1
            /\ \A i \in DOMAIN s :
                /\ s[i].op = "write" /\ s[i].dc = 1
                /\ BytesLen(s[i].data) = 2 * Pixels(s[i])
                /\ Pixels(s[i]) = IF i < Len(s) THEN 512 ELSE N % 512
                /\ Pixels(s[i]) <= 512
                /\ Pixels(s[i]) > 0 =>
                        s[i].data.unit = <<call.color \div 256, call.color % 256>>
            /\ (Len(s) - 1) * 512 + Pixels(s[Len(s)]) = N
            /\ N = 1000 => (Len(s) = 2 /\ Pixels(s[1]) = 512 /\ Pixels(s[2]) = 488)

\* C4 witness: a 25 x 40 rectangle (1000 pixels) went out as 512 + 488 pixels
C4_Witness ==
    /\ call.name = "fill_rectangle"
    /\ call.x = 100 /\ call.y = -5 /\ call.w = 25 /\ call.h = 40
    /\ Len(Streamed(bus)) = 2
    /\ Pixels(Streamed(bus)[1]) = 512
    /\ Pixels(Streamed(bus)[2]) = 488

\* C5: a pixel write outside the panel does nothing: no event on the wires, no
\* result, pin levels and scroll offset as before; inside the panel it sets
\* the window (x,y)-(x,y) and writes the colour as two bytes, high byte first.
C5_PixelWrite ==
    [][ (call'.name = "pixel" /\ call'.color # None) =>
            IF 0 <= call'.x /\ call'.x <= 319 /\ 0 <= call'.y /\ call'.y <= 239
            THEN LET t == Transfers(bus')
                     c == call'.color[1]
                 IN  /\ Windows(bus') = << [x0 |-> call'.x, x1 |-> call'.x,
                                            y0 |-> call'.y, y1 |-> call'.y] >>
                     /\ Len(t) = 6
                     /\ IsCommand(t[5], 44)
                     /\ IsPayload(t[6], <<c \div 256, c % 256>>)
            ELSE /\ bus' = <<>>
                 /\ ret' = None
                 /\ cs' = cs /\ dc' = dc /\ rst' = rst
                 /\ _scroll' = _scroll ]_vars

\* C5 witness: pixel(400, 10, color) has returned with nothing on the wires,
\* the driver scrolled by 10 before it
C5_Witness ==
    /\ call.name = "pixel" /\ call.color # None
    /\ call.x = 400 /\ call.y = 10
    /\ bus = <<>>
    /\ _scroll = 10

\* __init__ has returned
Constructed == call.name # "__init__" \/ pc = "ready"

\* C6: once the driver is constructed the scroll offset is always within 0..239 and is the sum of all dy
\* modulo 240 (250 gives 10); scroll(dy) writes the new offset, two bytes high
\* first, to register 0x37 and nothing else; scroll() returns the offset,
\* keeps it and touches no wire.
C6_Scroll ==
    [][ /\ Constructed => (_scroll \in 0..239 /\ _scroll = total % 240)
        /\ Constructed' => (_scroll' \in 0..239 /\ _scroll' = total' % 240)
        /\ (Constructed' /\ total' = 250) => _scroll' = 10
        /\ (call'.name = "scroll" /\ call'.dy # None) =>
                LET t == Transfers(bus')
                IN  /\ _scroll' = (_scroll + call'.dy[1]) % 240
                    /\ Len(t) = 2
                    /\ IsCommand(t[1], 55)
                    /\ IsPayload(t[2], <<_scroll' \div 256, _scroll' % 256>>)
        /\ (call'.name = "scroll" /\ call'.dy = None) =>
                /\ ret' = Some(_scroll)
                /\ _scroll' = _scroll
                /\ bus' = <<>> ]_vars

\* C6 witness: starting at 0, scroll(250) has left the offset at 10
C6_Witness ==
    /\ call.name = "scroll" /\ call.dy = Some(250)
    /\ total = 250
    /\ _scroll = 10

\* C7: with mode BGR, set_rotation(1) writes command 0x36 followed by the
\* payload 0x00 0x28 and nothing else.
C7_Rotation1Bgr ==
    (call.name = "set_rotation" /\ call.value = 1 /\ mode = 8) =>
        LET t == Transfers(bus)
        IN  /\ Len(t) = 2
            /\ IsCommand(t[1], 54)
            /\ IsPayload(t[2], <<0, 40>>)

\* C7 witness: set_rotation(1) has returned on a BGR driver
C7_Witness ==
    /\ call.name = "set_rotation" /\ call.value = 1 /\ mode = 8
    /\ Len(Transfers(bus)) = 2

\* The flags at index value mod 4, and the payload set_rotation then writes
RotationStep(flags) ==
    call'.name = "set_rotation" =>
        LET t == Transfers(bus')
            f == BitOr(flags[(call'.value % 4) + 1], mode)
        IN  /\ Len(t) = 2
            /\ IsCommand(t[1], 54)
            /\ IsPayload(t[2], <<f \div 256, f % 256>>)
            /\ _scroll' = _scroll
            /\ mode' = mode

\* C8 as stated: index 1 selects mirror-X + swap-axes (0x40 | 0x20)
C8_AsStated == [][ RotationStep(<<64, 64 + 32, 128, 64 + 128 + 32>>) ]_vars

\* C8: set_rotation(value) selects by value mod 4 among mirror-X, swap-axes,
\* mirror-Y, mirror-X + mirror-Y + swap-axes (0x40, 0x20, 0x80, 0xE0), ORs the
\* mode in and writes the result, two bytes high first, to register 0x36; the
\* scroll offset stays as it was.
C8_Rotation == [][ RotationStep(<<64, 32, 128, 64 + 128 + 32>>) ]_vars

\* C8 witness: set_rotation(6) has written index 2 (mirror-Y) with the driver
\* scrolled
C8_Witness ==
    /\ call.name = "set_rotation" /\ call.value = 6
    /\ _scroll # 0
    /\ Transfers(bus)[2].data = Bytes(<<0, BitOr(128, mode)>>)

\* The boundaries text() works with: the arguments, or the defaults
WrapOf(c) == IF c.wrap = None THEN 320 - 8 ELSE c.wrap[1]
VWrapOf(c) == IF c.vwrap = None THEN 240 - 8 ELSE c.vwrap[1]

IsGlyph(step) == step.ch # "\n"

\* The window of an 8x8 glyph drawn at <<x, y>>
GlyphWindow(at) == [x0 |-> at[1], x1 |-> at[1] + 7, y0 |-> at[2], y1 |-> at[2] + 7]

\* What C9 says of a text() call with the built-in font, given where a
\* horizontal wrap puts the vertical cursor (lineY) and for which starting y
\* the three-character example is meant (example)
BuiltinLayout(lineY(_), example) ==
    (call.name = "text" /\ call.font = None) =>
        LET glyphs == SelectSeq(cursor, IsGlyph)
            wrap == WrapOf(call)
        IN  /\ \A n \in DOMAIN glyphs :
                /\ glyphs[n].after = <<glyphs[n].at[1] + 8, glyphs[n].at[2]>>
                /\ IF glyphs[n].before[1] >= wrap
                   THEN glyphs[n].nl /\ glyphs[n].at = <<call.x, lineY(glyphs[n].before[2])>>
                   ELSE ~glyphs[n].nl /\ glyphs[n].at = glyphs[n].before
                /\ call.x < wrap => glyphs[n].at[1] < wrap
            /\ ~call.clear_eol =>
                    Windows(bus) = [n \in DOMAIN glyphs |-> GlyphWindow(glyphs[n].at)]
            /\ (wrap = 16 /\ call.x = 0 /\ call.text = <<"A", "A", "A">> /\ example) =>
                    Windows(bus) = << GlyphWindow(<<0, call.y>>),
                                      GlyphWindow(<<8, call.y>>),
                                      GlyphWindow(<<0, call.y + 8>>) >>

Advanced(ty) == ty + 8
WrappedAtBoundary(ty) == IF ty + 8 >= VWrapOf(call) THEN call.y ELSE ty + 8

\* C9 as stated: a horizontal wrap always advances the vertical cursor by 8,
\* so three characters at x = 0 with wrap = 16 land on (0,y), (8,y), (0,y+8)
C9_AsStated == BuiltinLayout(Advanced, TRUE)

\* C9: with the built-in font, glyphs are laid out left to right in steps of
\* 8; a character whose cursor x has reached wrap is first moved to a new line
\* (x back to the starting x, y advanced by 8, or back to the starting y when
\* the advanced value reaches vwrap); with wrap = 16, x = 0 and y + 8 < vwrap,
\* three characters are drawn at (0,y), (8,y), (0,y+8); when the starting x is
\* below wrap no glyph is drawn at x >= wrap.
C9_TextWrap == BuiltinLayout(WrappedAtBoundary, call.y + 8 < VWrapOf(call))

\* C9 witness: text("AAA", 0, 0, wrap=16) has drawn its third glyph at (0, 8)
C9_Witness ==
    /\ call.name = "text" /\ call.font = None
    /\ call.text = <<"A", "A", "A">> /\ call.x = 0 /\ call.y = 0 /\ call.wrap = Some(16)
    /\ call.vwrap = None
    /\ Len(Windows(bus)) = 3
    /\ Windows(bus)[3] = GlyphWindow(<<0, 8>>)

\* What C10 says of a text() call, given when the advanced vertical cursor
\* goes back to the starting y
VerticalWrap(back(_, _)) ==
    call.name = "text" =>
        LET vwrap == VWrapOf(call)
        IN  /\ \A n \in DOMAIN cursor :
                cursor[n].nl =>
                    cursor[n].at[2] = IF back(cursor[n].before[2] + 8, vwrap)
                                      THEN call.y
                                      ELSE cursor[n].before[2] + 8
            /\ (0 <= call.y /\ call.y <= vwrap) =>
                    \A n \in DOMAIN cursor :
                        /\ call.y <= cursor[n].at[2] /\ cursor[n].at[2] <= vwrap
                        /\ call.y <= cursor[n].after[2] /\ cursor[n].after[2] <= vwrap

Exceeds(ty, vwrap) == ty > vwrap
Reaches(ty, vwrap) == ty >= vwrap

\* C10 as stated: the vertical cursor goes back to the starting y exactly
\* when the advanced value exceeds vwrap
C10_AsStated == VerticalWrap(Exceeds)

\* C10: on every new line of text() the vertical cursor advances by 8 and
\* goes back to the starting y exactly when the advanced value reaches or
\* exceeds vwrap (ty + 8 >= vwrap), keeping the advanced value otherwise; for
\* a starting y within 0..vwrap the vertical cursor stays within y..vwrap.
C10_VerticalWrap == VerticalWrap(Reaches)

\* C10 witness: a new line from ty = 224 with the default vwrap = 232, where the
\* advanced value equals vwrap, has put the cursor back at the starting y
C10_Witness ==
    /\ call.name = "text" /\ call.y = 224 /\ call.vwrap = None
    /\ \E n \in DOMAIN cursor :
        /\ cursor[n].nl
        /\ cursor[n].before[2] + 8 = 232
        /\ cursor[n].at[2] = 224

====
